---- MODULE Spec2Model ----
(***************************************************************************)
(* Soft-delete / restore layer of the notake notes API.                    *)
(*                                                                         *)
(* The note table is a function from note ids to rows.  Every route        *)
(* handler is one action.  POST /api/notes/[id]/restore runs two database  *)
(* statements (SELECT, then UPDATE): RestorePOST is the handler served     *)
(* alone, RestoreSelect and RestoreUpdate are its two statements as        *)
(* separate steps, so that requests of different clients interleave.       *)
(*                                                                         *)
(*   Spec      the by-id routes and bulk restore, one request at a time    *)
(*   SpecList  GET /api/notes over tables the write routes produce         *)
(*   SpecPage  a client following nextCursor through both views            *)
(*   SpecRace  restore requests interleaved at their statements            *)
(***************************************************************************)
EXTENDS Integers, Sequences, FiniteSets, TLC

\* ------------------------------------------------------------------ bounds
MaxNotes == 2
MaxClock == 2
MaxReqs  == 2
MaxIds   == 2                       \* longest noteIds array of a bulk restore
MaxRows  == 53                      \* most notes of a user with a long history

\* ------------------------------------------------------- program constants
DefaultLimit == 20
LimitCap     == 50

\* ------------------------------------------------------------ value spaces
Null      == 0                      \* SQL NULL / JS null / absent parameter
Undefined == "undefined"            \* field absent from a JSON body
NullText  == "null"                 \* NULL in a text column
Users     == {"alice", "bob"}
Anonymous == "anonymous"            \* a caller whose request carries no valid session
Callers   == Users \cup {Anonymous}
Titles    == {"A", "B"}
Contents  == {"x"}
NoteIds   == 1..MaxNotes
Reqs      == 1..MaxReqs
LimitParams == {Null, 1, 2}
\* limit as a query may carry it; Null is the absent parameter and "0" alike,
\* Number(...) || 20 takes both for 20
LimitQueries == LimitParams \cup {-1, -2}
CursorParams == {Null} \cup 1..(MaxNotes + 1)

VARIABLES
    note,       \* the note table: id -> row
    clock,      \* the last value read from the wall clock
    pending,    \* requests in flight: a restore between its SELECT and its UPDATE,
                \* a soft delete between reading the clock and its UPDATE
    resp,       \* the last request served and its response
    pg,         \* a client paging through both views of its notes
    okRestores  \* per note: 200 responses of restore since it last became Deleted

vars == <<note, clock, pending, resp, pg, okRestores>>

NoNote == [id |-> Null, userId |-> "none", title |-> "", content |-> NullText,
           createdAt |-> Null, updatedAt |-> Null, deletedAt |-> Null]

\* the updates a save carries: { title?, content? }
NoUpdates == [title |-> Undefined, content |-> Undefined]

NoReq == [op |-> "none", user |-> "none", id |-> Null, now |-> Null,
          items |-> <<>>, title |-> Undefined, content |-> Undefined,
          updates |-> NoUpdates]

\* the noteIds of a bulk-restore body: missing, a value that is no array, or an
\* array whose items are ids (strings) or Null (an item that is no string)
NoBody == [kind |-> "missing", items |-> <<>>]

BulkBodies ==
    {NoBody, [kind |-> "scalar", items |-> <<>>]} \cup
    {[kind |-> "array", items |-> s] :
        s \in UNION {[1..k -> {Null} \cup 1..(MaxNotes + 1)] : k \in 0..MaxIds}}

\* the arrays a well-behaved client sends: ids of notes, each once
SelectionBodies ==
    {b \in BulkBodies :
        /\ b.kind = "array" /\ Len(b.items) > 0
        /\ \A k \in DOMAIN b.items : b.items[k] \in NoteIds
        /\ \A j, k \in DOMAIN b.items : j < k => b.items[j] < b.items[k]}

\* was: the table as it was when the request was served;
\* now: the time a soft delete read from the clock;
\* title, content: the title and content of the request body of a create or
\* an update;
\* before: the addressed row as it was when the request was served;
\* origin: for a restore served right after the same user's successful soft
\* delete of the same note, the row as it was before that soft delete
NoResp == [op |-> "none", user |-> "none", id |-> Null, status |-> 0,
           error |-> "", before |-> NoNote, origin |-> NoNote, body |-> NoNote,
           deleted |-> FALSE, limit |-> Null, cursor |-> Null,
           notes |-> <<>>, nextCursor |-> Null,
           noteIds |-> NoBody, restored |-> 0, was |-> <<>>,
           title |-> Undefined, content |-> Undefined, now |-> Null]

NoPg == [view |-> "idle", user |-> "none", limit |-> Null, cursor |-> Null,
         seenActive |-> <<>>, seenTrash |-> <<>>, sizes |-> <<>>,
         keep |-> FALSE, base |-> {}, selected |-> {}]

\* --------------------------------------------------------------- helpers
Min(a, b) == IF a < b THEN a ELSE b

Row(table, id) == IF id \in DOMAIN table THEN table[id] ELSE NoNote

\* ------------------------------------------------------------- the store
\* the null that getSession answers for a request without a valid session
NoSession == [user |-> [id |-> "none"]]

\* auth.api.getSession({ headers }), with every caller taken to be signed in
SessionAnyCaller(caller) ==
    [user |-> [id |-> caller]]

\* auth.api.getSession({ headers }): the session of the caller, or null
Session(caller) ==
    IF caller \in Users THEN [user |-> [id |-> caller]] ELSE NoSession

\* the WHERE without its ownership predicate
OwnedByAnyone(table, id, user) ==
    id \in DOMAIN table

\* the same filter with isNull(note.deletedAt) added
OwnedByActive(table, id, user) ==
    id \in DOMAIN table /\ table[id].userId = user /\ table[id].deletedAt = Null

\* .where(and(eq(note.id, id), eq(note.userId, session.user.id)))
OwnedBy(table, id, user) ==
    id \in DOMAIN table /\ table[id].userId = user

\* crypto.randomUUID(): an id no row has
NewId(table) ==
    LET free == 1..(Cardinality(DOMAIN table) + 1) \ DOMAIN table IN
    CHOOSE i \in free : \A j \in free : i <= j

\* an insert that leaves updatedAt to the column default
CreatedRowNoUpdatedAt(id, user, title, content, now) ==
    [id |-> id, userId |-> user, title |-> title,
     content |-> IF content = Undefined THEN NullText ELSE content,
     createdAt |-> now, updatedAt |-> Null, deletedAt |-> Null]

\* POST /api/notes: the inserted row
CreatedRow(id, user, title, content, now) ==
    [id |-> id, userId |-> user, title |-> title,
     content |-> IF content = Undefined THEN NullText ELSE content,
     createdAt |-> now, updatedAt |-> now, deletedAt |-> Null]

\* an update that moves the note to the time of the edit
PutRowRecreated(row, title, content, now) ==
    [row EXCEPT !.title = IF title # Undefined THEN title ELSE @,
                !.content = IF content # Undefined THEN content ELSE @,
                !.updatedAt = now, !.createdAt = now]

\* an update that clears the note's trash mark
PutRowUndeleting(row, title, content, now) ==
    [row EXCEPT !.title = IF title # Undefined THEN title ELSE @,
                !.content = IF content # Undefined THEN content ELSE @,
                !.updatedAt = now, !.deletedAt = Null]

\* PUT /api/notes/[id]: .set({...title, ...content, updatedAt})
PutRow(row, title, content, now) ==
    [row EXCEPT !.title = IF title # Undefined THEN title ELSE @,
                !.content = IF content # Undefined THEN content ELSE @,
                !.updatedAt = now]

\* a soft delete that forgets to bump updatedAt
DeleteRowStale(row, now) ==
    [row EXCEPT !.deletedAt = now]

\* a soft delete that stamps a fixed date instead of the time of the request
DeleteRowFixedDate(row, now) ==
    [row EXCEPT !.deletedAt = 1, !.updatedAt = now]

\* a soft delete that keeps the time of an earlier soft delete
DeleteRowKeepFirst(row, now) ==
    [row EXCEPT !.deletedAt = IF @ # Null THEN @ ELSE now, !.updatedAt = now]

\* DELETE /api/notes/[id]: .set({deletedAt: now, updatedAt: now})
DeleteRow(row, now) ==
    [row EXCEPT !.deletedAt = now, !.updatedAt = now]

\* a soft delete whose WHERE has lost eq(note.id, id)
UpdateDeletedAnyId(table, id, user, now) ==
    [i \in DOMAIN table |->
        IF table[i].userId = user THEN DeleteRow(table[i], now) ELSE table[i]]

\* DELETE /api/notes/[id]: db.update(note).set(...)
\*     .where(and(eq(note.id, id), eq(note.userId, session.user.id)))
UpdateDeleted(table, id, user, now) ==
    [i \in DOMAIN table |->
        IF i = id /\ table[i].userId = user THEN DeleteRow(table[i], now)
                                            ELSE table[i]]

\* a restore that forgets to bump updatedAt
RestoreRowStale(row, now) ==
    [row EXCEPT !.deletedAt = Null]

\* a restore that treats the note as created anew
RestoreRowRecreated(row, now) ==
    [row EXCEPT !.deletedAt = Null, !.updatedAt = now, !.createdAt = now]

\* POST /api/notes/[id]/restore: .set({deletedAt: null, updatedAt: new Date()})
RestoreRow(row, now) ==
    [row EXCEPT !.deletedAt = Null, !.updatedAt = now]

\* a verifying SELECT without isNotNull(note.deletedAt)
RestoreFoundAnyState(table, id, user) ==
    /\ id \in DOMAIN table
    /\ table[id].userId = user

\* POST /api/notes/[id]/restore: the WHERE of the verifying SELECT
RestoreFound(table, id, user) ==
    /\ id \in DOMAIN table
    /\ table[id].userId = user
    /\ table[id].deletedAt # Null

\* POST /api/notes/[id]/restore: the WHERE of the UPDATE
RestoreTarget(table, id, user) ==
    id \in DOMAIN table /\ table[id].userId = user

\* POST /api/notes/restore: !noteIds || !Array.isArray(noteIds) || noteIds.length === 0
NoteIdsRequired(body) ==
    body.kind # "array" \/ Len(body.items) = 0

AllStringsUnchecked(items) ==
    TRUE

\* POST /api/notes/restore: noteIds.every((id) => typeof id === "string")
AllStrings(items) ==
    \A k \in DOMAIN items : items[k] # Null

BulkTargetsAnyOwner(table, noteIds, user) ==
    {i \in DOMAIN table : /\ \E k \in DOMAIN noteIds : noteIds[k] = i
                          /\ table[i].deletedAt # Null}

\* an UPDATE that stops after the first row it restores
BulkTargetsFirstOnly(table, noteIds, user) ==
    LET all == {i \in DOMAIN table : /\ \E k \in DOMAIN noteIds : noteIds[k] = i
                                     /\ table[i].userId = user
                                     /\ table[i].deletedAt # Null}
    IN  {i \in all : \A j \in all : i <= j}

\* POST /api/notes/restore: the WHERE of the multi-row UPDATE
BulkTargets(table, noteIds, user) ==
    {i \in DOMAIN table : /\ \E k \in DOMAIN noteIds : noteIds[k] = i
                          /\ table[i].userId = user
                          /\ table[i].deletedAt # Null}

BulkRestoreRowRecreated(row, now) ==
    [row EXCEPT !.deletedAt = Null, !.updatedAt = now, !.createdAt = now]

\* POST /api/notes/restore: .set({deletedAt: null, updatedAt: now})
BulkRestoreRow(row, now) ==
    [row EXCEPT !.deletedAt = Null, !.updatedAt = now]

\* a check that rejects a missing title only
TitleMissingOnlyUndefined(title) ==
    title = Undefined

\* POST /api/notes: if (!title)
TitleMissing(title) ==
    title = Undefined \/ title = ""

\* ------------------------------------------------- GET /api/notes (list)
\* Math.min(Number(searchParams.get("limit")) || 20, 50)
EffLimit(limit) ==
    Min(IF limit = Null THEN DefaultLimit ELSE limit, LimitCap)

\* deleted ? note.deletedAt : note.createdAt
TimestampField(row, deleted) ==
    IF deleted THEN row.deletedAt ELSE row.createdAt

\* a cursor that names no row taken for a bound at the first tick
CursorTimestampEpoch(table, deleted, cursor) ==
    IF cursor = Null THEN Null
    ELSE IF cursor \in DOMAIN table THEN TimestampField(table[cursor], deleted)
    ELSE 1

\* the cursor note's timestamp: .where(eq(note.id, cursor)), then
\* deleted ? cursorNote.deletedAt : cursorNote.createdAt
CursorTimestamp(table, deleted, cursor) ==
    IF cursor # Null /\ cursor \in DOMAIN table
    THEN TimestampField(table[cursor], deleted)
    ELSE Null

\* the conditions without the deleted-status filter
ConditionsAnyPartition(table, user, deleted, cursor) ==
    LET cursorTimestamp == CursorTimestamp(table, deleted, cursor) IN
    {i \in DOMAIN table :
        /\ table[i].userId = user
        /\ cursorTimestamp # Null =>
               TimestampField(table[i], deleted) < cursorTimestamp}

\* a cursor bound that lets the cursor row through again
ConditionsInclusive(table, user, deleted, cursor) ==
    LET cursorTimestamp == CursorTimestamp(table, deleted, cursor) IN
    {i \in DOMAIN table :
        /\ table[i].userId = user
        /\ IF deleted THEN table[i].deletedAt # Null ELSE table[i].deletedAt = Null
        /\ cursorTimestamp # Null =>
               TimestampField(table[i], deleted) <= cursorTimestamp}

\* and(...conditions): owner, partition, and the cursor bound when it resolved
Conditions(table, user, deleted, cursor) ==
    LET cursorTimestamp == CursorTimestamp(table, deleted, cursor) IN
    {i \in DOMAIN table :
        /\ table[i].userId = user
        /\ IF deleted THEN table[i].deletedAt # Null ELSE table[i].deletedAt = Null
        /\ cursorTimestamp # Null =>
               TimestampField(table[i], deleted) < cursorTimestamp}

\* .orderBy(desc(orderByField)): every order the database may return; rows with
\* equal timestamps come in any order
RECURSIVE Orders(_)
Orders(S) ==
    IF S = {} THEN {<<>>}
    ELSE UNION {{<<i>> \o rest : rest \in Orders(S \ {i})} : i \in S}

RECURSIVE OrderFrom(_, _, _, _)
OrderFrom(table, S, deleted, t) ==
    IF S = {}
    THEN {<<>>}
    ELSE LET tied == {i \in S : TimestampField(table[i], deleted) = t} IN
         {first \o rest : first \in Orders(tied),
                          rest \in OrderFrom(table, S \ tied, deleted, t - 1)}

\* a query without its ORDER BY
OrderByUnordered(table, S, deleted) ==
    Orders(S)

OrderBy(table, S, deleted) ==
    IF S = {}
    THEN {<<>>}
    ELSE LET latest == CHOOSE i \in S : \A j \in S :
                          TimestampField(table[i], deleted) >=
                              TimestampField(table[j], deleted)
         IN  OrderFrom(table, S, deleted, TimestampField(table[latest], deleted))

\* an UPDATE that returns one row for every item of noteIds that matches
UpdatedPerItem(table, noteIds, user) ==
    LET targets == BulkTargets(table, noteIds, user)
        hit(k) == noteIds[k] \in targets
        RECURSIVE from(_)
        from(k) == IF k > Len(noteIds) THEN <<>>
                   ELSE IF hit(k) THEN <<noteIds[k]>> \o from(k + 1)
                   ELSE from(k + 1)
    IN  {from(1)}

\* POST /api/notes/restore: const updated = ....returning(), the ids of the
\* rows the UPDATE wrote, each once, in the order the database gives them
Updated(table, noteIds, user) ==
    Orders(BulkTargets(table, noteIds, user))

\* updated.map((n) => ({ id: n.id, deletedAt: n.deletedAt }))
RestoredNotes(table, updated) ==
    [k \in DOMAIN updated |-> [id |-> updated[k], deletedAt |-> table[updated[k]].deletedAt]]

\* .limit(n) of the query builder and the database. A positive n keeps the
\* first n rows. For n <= 0 the outcome depends on the version of the query
\* builder, which the repository does not pin: the LIMIT clause is left out
\* (every row comes back), or it is sent and the database answers LIMIT 0 with
\* no rows and a negative LIMIT with an error.
LimitRows(s, n) ==
    IF n > 0
    THEN {[ok |-> TRUE, rows |-> SubSeq(s, 1, Min(Len(s), n))]}
    ELSE {[ok |-> TRUE, rows |-> s],
          IF n = 0 THEN [ok |-> TRUE, rows |-> <<>>]
                   ELSE [ok |-> FALSE, rows |-> <<>>]}

\* notes.slice(0, limit): a negative limit counts from the end
Slice(s, limit) ==
    IF limit >= 0
    THEN SubSeq(s, 1, Min(Len(s), limit))
    ELSE IF Len(s) + limit >= 1 THEN SubSeq(s, 1, Len(s) + limit) ELSE <<>>

\* hasMore, results, nextCursor and the response; a query the database
\* rejected, and results[results.length - 1] of an empty page, throw
Page(table, fetched, limit) ==
    LET hasMore == Len(fetched.rows) > limit
        results == IF hasMore THEN Slice(fetched.rows, limit) ELSE fetched.rows
    IN  IF ~fetched.ok \/ (hasMore /\ results = <<>>)
        THEN [status |-> 500, notes |-> <<>>, nextCursor |-> Null]
        ELSE [status |-> 200,
              notes |-> [k \in DOMAIN results |-> table[results[k]]],
              nextCursor |-> IF hasMore THEN table[results[Len(results)]].id
                                        ELSE Null]

\* every response GET /api/notes may give on this table
ListResponses(table, user, deleted, limit, cursor) ==
    LET matching == Conditions(table, user, deleted, cursor) IN
    {Page(table, fetched, EffLimit(limit)) :
        fetched \in UNION {LimitRows(s, EffLimit(limit) + 1) :
                              s \in OrderBy(table, matching, deleted)}}

PageIds(rows) == [k \in DOMAIN rows |-> rows[k].id]

\* ------------------------------------------------------------------ state
Init ==
    /\ note = <<>>
    /\ clock = 1
    /\ pending = [r \in Reqs |-> NoReq]
    /\ resp = NoResp
    /\ pg = NoPg
    /\ okRestores = [i \in NoteIds |-> 0]

\* the table of a user with a long history: n notes created one per tick, of
\* which the d oldest were then soft-deleted, the oldest last
Library(n, d) ==
    [i \in 1..n |->
        [id |-> i, userId |-> "alice", title |-> "A", content |-> NullText,
         createdAt |-> i,
         updatedAt |-> IF i <= d THEN n + d + 1 - i ELSE i,
         deletedAt |-> IF i <= d THEN n + d + 1 - i ELSE Null]]

InitLibrary ==
    /\ \E n \in 0..MaxRows : \E d \in {0, n \div 2} : note = Library(n, d)
    /\ clock = 2 * MaxRows
    /\ pending = [r \in Reqs |-> NoReq]
    /\ resp = NoResp
    /\ pg = NoPg
    /\ okRestores = [i \in NoteIds |-> 0]

\* the last tick of a short history that goes on: every write beside a paging
\* client comes at a tick of its own
LiveHorizon == 2 * (MaxNotes + 2) + MaxClock + 1

\* a short history, with room for a few more notes and ticks
InitLive ==
    /\ \E n \in (MaxNotes + 1)..(MaxNotes + 2) : \E d \in 0..n : note = Library(n, d)
    /\ clock = 2 * (MaxNotes + 2)
    /\ pending = [r \in Reqs |-> NoReq]
    /\ resp = NoResp
    /\ pg = NoPg
    /\ okRestores = [i \in 1..(MaxNotes + 3) |-> 0]

\* a paging client gives up when a write changes the table between its pages
Touched(table) ==
    IF table # note /\ ~pg.keep THEN NoPg ELSE pg

\* if (!session) return Response.json({ error: "Unauthorized" }, { status: 401 })
Unauthorized(op, caller) ==
    /\ resp' = [NoResp EXCEPT !.op = op, !.user = caller, !.status = 401,
                              !.error = "Unauthorized", !.was = note]
    /\ UNCHANGED <<note, clock, pending, pg, okRestores>>

\* ----------------------------------------------------------------- actions
\* GET /api/notes
ListGET(user, deleted, limit, cursor) ==
    IF Session(user) = NoSession THEN Unauthorized("list", user) ELSE
    /\ \E page \in ListResponses(note, user, deleted, limit, cursor) :
          resp' = [NoResp EXCEPT !.op = "list", !.user = user,
                                 !.status = page.status,
                                 !.deleted = deleted, !.limit = limit,
                                 !.cursor = cursor, !.notes = page.notes,
                                 !.nextCursor = page.nextCursor]
    /\ UNCHANGED <<note, clock, pending, pg, okRestores>>

\* POST /api/notes
CreatePOST(user, title, content, now) ==
    IF Session(user) = NoSession THEN Unauthorized("create", user) ELSE
    /\ DOMAIN note # NoteIds
    /\ IF TitleMissing(title)
       THEN /\ resp' = [NoResp EXCEPT !.op = "create", !.user = user, !.status = 400,
                                      !.error = "Title is required",
                                      !.title = title, !.was = note]
            /\ UNCHANGED <<note, clock>>
       ELSE LET id == NewId(note)
                created == CreatedRow(id, user, title, content, now)
            IN  /\ note' = [i \in DOMAIN note \cup {id} |->
                               IF i = id THEN created ELSE note[i]]
                /\ clock' = now
                /\ resp' = [NoResp EXCEPT !.op = "create", !.user = user, !.id = id,
                                          !.status = 201, !.body = created,
                                          !.title = title, !.was = note]
    /\ pg' = Touched(note')
    /\ UNCHANGED <<pending, okRestores>>

\* GET /api/notes/[id]
NoteGET(user, id) ==
    IF Session(user) = NoSession THEN Unauthorized("getById", user) ELSE
    /\ resp' = IF OwnedBy(note, id, user)
               THEN [NoResp EXCEPT !.op = "getById", !.user = user, !.id = id,
                                   !.status = 200, !.before = note[id],
                                   !.body = note[id], !.was = note]
               ELSE [NoResp EXCEPT !.op = "getById", !.user = user, !.id = id,
                                   !.status = 404, !.error = "Note not found",
                                   !.before = Row(note, id), !.was = note]
    /\ UNCHANGED <<note, clock, pending, pg, okRestores>>

\* PUT /api/notes/[id]
NotePUT(user, id, title, content, now) ==
    IF Session(user) = NoSession THEN Unauthorized("update", user) ELSE
    /\ IF OwnedBy(note, id, user)
       THEN /\ note' = [note EXCEPT ![id] = PutRow(@, title, content, now)]
            /\ resp' = [NoResp EXCEPT !.op = "update", !.user = user, !.id = id,
                                      !.status = 200, !.before = note[id],
                                      !.body = note'[id], !.title = title,
                                      !.content = content, !.was = note]
       ELSE /\ note' = note
            /\ resp' = [NoResp EXCEPT !.op = "update", !.user = user, !.id = id,
                                      !.status = 404, !.error = "Note not found",
                                      !.before = Row(note, id), !.title = title,
                                      !.content = content, !.was = note]
    /\ clock' = now
    /\ pg' = Touched(note')
    /\ UNCHANGED <<pending, okRestores>>

\* DELETE /api/notes/[id]
NoteDELETE(user, id, now) ==
    IF Session(user) = NoSession THEN Unauthorized("softDelete", user) ELSE
    /\ IF OwnedBy(note, id, user)
       THEN /\ note' = UpdateDeleted(note, id, user, now)
            /\ resp' = [NoResp EXCEPT !.op = "softDelete", !.user = user, !.id = id,
                                      !.status = 200, !.before = note[id],
                                      !.body = note'[id], !.now = now]
            /\ okRestores' = [okRestores EXCEPT ![id] = 0]
       ELSE /\ note' = note
            /\ resp' = [NoResp EXCEPT !.op = "softDelete", !.user = user, !.id = id,
                                      !.status = 404, !.error = "Note not found",
                                      !.before = Row(note, id), !.now = now]
            /\ UNCHANGED okRestores
    /\ clock' = now
    /\ pg' = Touched(note')
    /\ UNCHANGED pending

\* DELETE /api/notes/[id], up to const now = new Date(). The id is one a create
\* has handed out, or one that no create ever hands out: ids are random UUIDs,
\* a request cannot name a note that is yet to be created.
DeleteBegin(r, user, id, now) ==
    IF Session(user) = NoSession THEN Unauthorized("softDelete", user) ELSE
    /\ pending[r] = NoReq
    /\ id \in DOMAIN note \cup {MaxNotes + 1}
    /\ pending' = [pending EXCEPT ![r] = [NoReq EXCEPT !.op = "softDelete",
                                                       !.user = user, !.id = id,
                                                       !.now = now]]
    /\ clock' = now
    /\ UNCHANGED <<note, resp, pg, okRestores>>

\* DELETE /api/notes/[id], the UPDATE and the response
DeleteApply(r) ==
    /\ pending[r].op = "softDelete"
    /\ LET user == pending[r].user
           id == pending[r].id
           now == pending[r].now
       IN  IF OwnedBy(note, id, user)
           THEN /\ note' = UpdateDeleted(note, id, user, now)
                /\ resp' = [NoResp EXCEPT !.op = "softDelete", !.user = user,
                                          !.id = id, !.status = 200,
                                          !.before = note[id], !.body = note'[id],
                                          !.now = now]
                /\ okRestores' = [okRestores EXCEPT ![id] = 0]
           ELSE /\ note' = note
                /\ resp' = [NoResp EXCEPT !.op = "softDelete", !.user = user,
                                          !.id = id, !.status = 404,
                                          !.error = "Note not found",
                                          !.before = Row(note, id), !.now = now]
                /\ UNCHANGED okRestores
    /\ pending' = [pending EXCEPT ![r] = NoReq]
    /\ pg' = Touched(note')
    /\ UNCHANGED clock

\* the row a soft delete replaced, when that soft delete was the request served
\* just before this one, for the same note and user
Origin(user, id) ==
    IF resp.op = "softDelete" /\ resp.status = 200 /\ resp.id = id /\ resp.user = user
    THEN resp.before
    ELSE NoNote

\* POST /api/notes/[id]/restore, the whole handler served without interleaving
RestorePOST(user, id, now) ==
    IF Session(user) = NoSession THEN Unauthorized("restore", user) ELSE
    /\ IF RestoreFound(note, id, user)
       THEN /\ RestoreTarget(note, id, user)
            /\ note' = [note EXCEPT ![id] = RestoreRow(@, now)]
            /\ resp' = [NoResp EXCEPT !.op = "restore", !.user = user, !.id = id,
                                      !.status = 200, !.before = note[id],
                                      !.origin = Origin(user, id),
                                      !.body = note'[id]]
            /\ clock' = now
       ELSE /\ resp' = [NoResp EXCEPT !.op = "restore", !.user = user, !.id = id,
                                      !.status = 404,
                                      !.error = "Note not found or not deleted",
                                      !.before = Row(note, id),
                                      !.origin = Origin(user, id)]
            /\ UNCHANGED <<note, clock>>
    /\ pg' = Touched(note')
    /\ UNCHANGED <<pending, okRestores>>

\* POST /api/notes/[id]/restore, first statement: the verifying SELECT
RestoreSelect(r, user, id) ==
    IF Session(user) = NoSession THEN Unauthorized("restore", user) ELSE
    /\ pending[r] = NoReq
    /\ IF RestoreFound(note, id, user)
       THEN /\ pending' = [pending EXCEPT ![r] = [NoReq EXCEPT !.op = "restore", !.user = user,
                                                          !.id = id]]
            /\ UNCHANGED resp
       ELSE /\ resp' = [NoResp EXCEPT !.op = "restore", !.user = user, !.id = id,
                                      !.status = 404,
                                      !.error = "Note not found or not deleted",
                                      !.before = Row(note, id)]
            /\ UNCHANGED pending
    /\ UNCHANGED <<note, clock, pg, okRestores>>

\* POST /api/notes/[id]/restore, second statement: the UPDATE and the response
RestoreUpdate(r, now) ==
    /\ pending[r].op = "restore"
    /\ LET user == pending[r].user
           id == pending[r].id
       IN  /\ RestoreTarget(note, id, user)
           /\ note' = [note EXCEPT ![id] = RestoreRow(@, now)]
           /\ resp' = [NoResp EXCEPT !.op = "restore", !.user = user, !.id = id,
                                     !.status = 200, !.before = note[id],
                                     !.body = note'[id]]
           /\ okRestores' = [okRestores EXCEPT ![id] = @ + 1]
    /\ pending' = [pending EXCEPT ![r] = NoReq]
    /\ clock' = now
    /\ pg' = Touched(note')

\* POST /api/notes/restore
BulkRestorePOST(user, body, now) ==
    IF Session(user) = NoSession THEN Unauthorized("bulkRestore", user) ELSE
    /\ IF NoteIdsRequired(body)
       THEN /\ resp' = [NoResp EXCEPT !.op = "bulkRestore", !.user = user,
                                      !.status = 400,
                                      !.error = "Invalid request: noteIds required",
                                      !.noteIds = body, !.was = note]
            /\ UNCHANGED <<note, clock>>
       ELSE IF ~AllStrings(body.items)
       THEN /\ resp' = [NoResp EXCEPT !.op = "bulkRestore", !.user = user,
                                      !.status = 400,
                                      !.error = "Invalid request: all noteIds must be strings",
                                      !.noteIds = body, !.was = note]
            /\ UNCHANGED <<note, clock>>
       ELSE LET targets == BulkTargets(note, body.items, user) IN
            /\ note' = [i \in DOMAIN note |->
                           IF i \in targets THEN BulkRestoreRow(note[i], now)
                                            ELSE note[i]]
            /\ \E updated \in Updated(note, body.items, user) :
                  resp' = [NoResp EXCEPT !.op = "bulkRestore", !.user = user,
                                         !.status = 200, !.noteIds = body,
                                         !.restored = Len(updated),
                                         !.notes = RestoredNotes(note', updated),
                                         !.was = note]
            /\ clock' = now
    /\ pg' = Touched(note')
    /\ UNCHANGED <<pending, okRestores>>

\* POST /api/notes/restore, up to const now = new Date()
BulkBegin(r, user, body, now) ==
    IF Session(user) = NoSession THEN Unauthorized("bulkRestore", user) ELSE
    /\ pending[r] = NoReq
    /\ IF NoteIdsRequired(body)
       THEN /\ resp' = [NoResp EXCEPT !.op = "bulkRestore", !.user = user,
                                      !.status = 400,
                                      !.error = "Invalid request: noteIds required",
                                      !.noteIds = body, !.was = note]
            /\ UNCHANGED <<pending, clock>>
       ELSE IF ~AllStrings(body.items)
       THEN /\ resp' = [NoResp EXCEPT !.op = "bulkRestore", !.user = user,
                                      !.status = 400,
                                      !.error = "Invalid request: all noteIds must be strings",
                                      !.noteIds = body, !.was = note]
            /\ UNCHANGED <<pending, clock>>
       ELSE /\ pending' = [pending EXCEPT ![r] = [NoReq EXCEPT !.op = "bulkRestore",
                                                              !.user = user,
                                                              !.now = now,
                                                              !.items = body.items]]
            /\ clock' = now
            /\ UNCHANGED resp
    /\ UNCHANGED <<note, pg, okRestores>>

\* POST /api/notes/restore, the UPDATE and the response
BulkApply(r) ==
    /\ pending[r].op = "bulkRestore"
    /\ LET user == pending[r].user
           now == pending[r].now
           targets == BulkTargets(note, pending[r].items, user)
       IN  /\ note' = [i \in DOMAIN note |->
                          IF i \in targets THEN BulkRestoreRow(note[i], now)
                                           ELSE note[i]]
           /\ \E updated \in Updated(note, pending[r].items, user) :
                 resp' = [NoResp EXCEPT !.op = "bulkRestore", !.user = user,
                                        !.status = 200,
                                        !.noteIds = [kind |-> "array",
                                                     items |-> pending[r].items],
                                        !.restored = Len(updated),
                                        !.notes = RestoredNotes(note', updated),
                                        !.was = note]
    /\ pending' = [pending EXCEPT ![r] = NoReq]
    /\ pg' = Touched(note')
    /\ UNCHANGED <<clock, okRestores>>

\* the note page loads: fetchNote. The editor is shown for an Active note of
\* the user; a slot with op "editor" is that page: title is its title state,
\* content its latestContentRef, updates the argument of the save that the
\* timer of saveTimeoutRef is to make, NoUpdates when no timer is pending
EditorOpen(r, user, id) ==
    /\ pending[r] = NoReq
    /\ IF OwnedBy(note, id, user)
       THEN /\ resp' = [NoResp EXCEPT !.op = "getById", !.user = user, !.id = id,
                                      !.status = 200, !.before = note[id],
                                      !.body = note[id], !.was = note]
            /\ pending' = IF note[id].deletedAt = Null
                          THEN [pending EXCEPT ![r] = [NoReq EXCEPT !.op = "editor",
                                                                   !.user = user,
                                                                   !.id = id,
                                                                   !.title = note[id].title,
                                                                   !.content = note[id].content]]
                          ELSE pending
       ELSE /\ resp' = [NoResp EXCEPT !.op = "getById", !.user = user, !.id = id,
                                      !.status = 404, !.error = "Note not found",
                                      !.before = Row(note, id), !.was = note]
            /\ UNCHANGED pending
    /\ UNCHANGED <<note, clock, pg, okRestores>>

\* debouncedSave: clearTimeout of the pending timer, setTimeout with these updates
DebouncedSave(page, updates) ==
    [page EXCEPT !.updates = updates]

\* handleTitleChange: setTitle(newTitle); debouncedSave({ title: newTitle })
EditorTitleChange(r, newTitle) ==
    /\ pending[r].op = "editor"
    /\ pending' = [pending EXCEPT ![r] =
                      DebouncedSave([@ EXCEPT !.title = newTitle],
                                    [NoUpdates EXCEPT !.title = newTitle])]
    /\ UNCHANGED <<note, clock, resp, pg, okRestores>>

\* handleContentChange: latestContentRef.current = json; debouncedSave({ content: json })
EditorContentChange(r, json) ==
    /\ pending[r].op = "editor"
    /\ pending' = [pending EXCEPT ![r] =
                      DebouncedSave([@ EXCEPT !.content = json],
                                    [NoUpdates EXCEPT !.content = json])]
    /\ UNCHANGED <<note, clock, resp, pg, okRestores>>

\* the save timer fires: saveNote sends PUT /api/notes/[id] with the updates
EditorSaveNote(r, q) ==
    /\ pending[r].op = "editor"
    /\ pending[r].updates # NoUpdates
    /\ pending[q] = NoReq
    /\ pending' = [pending EXCEPT ![r].updates = NoUpdates,
                                  ![q] = [NoReq EXCEPT !.op = "update",
                                                       !.user = pending[r].user,
                                                       !.id = pending[r].id,
                                                       !.title = pending[r].updates.title,
                                                       !.content = pending[r].updates.content]]
    /\ UNCHANGED <<note, clock, resp, pg, okRestores>>

\* PUT /api/notes/[id], serving the request that saveNote sent
SaveApply(q, now) ==
    /\ pending[q].op = "update"
    /\ LET user == pending[q].user
           id == pending[q].id
           title == pending[q].title
           content == pending[q].content
       IN  IF OwnedBy(note, id, user)
           THEN /\ note' = [note EXCEPT ![id] = PutRow(@, title, content, now)]
                /\ resp' = [NoResp EXCEPT !.op = "update", !.user = user, !.id = id,
                                          !.status = 200, !.before = note[id],
                                          !.body = note'[id], !.title = title,
                                          !.content = content, !.was = note]
           ELSE /\ note' = note
                /\ resp' = [NoResp EXCEPT !.op = "update", !.user = user, !.id = id,
                                          !.status = 404, !.error = "Note not found",
                                          !.before = Row(note, id), !.title = title,
                                          !.content = content, !.was = note]
    /\ pending' = [pending EXCEPT ![q] = NoReq]
    /\ clock' = now
    /\ pg' = Touched(note')
    /\ UNCHANGED okRestores

\* handleMoveToTrash: DELETE /api/notes/[id]; the page stays as it is, save
\* timer included, until the redirect a second later
EditorMoveToTrash(r, now) ==
    /\ pending[r].op = "editor"
    /\ NoteDELETE(pending[r].user, pending[r].id, now)

\* router.push("/notes") or any other navigation: the page unmounts and its
\* cleanup clears the save timer
EditorUnmount(r) ==
    /\ pending[r].op = "editor"
    /\ pending' = [pending EXCEPT ![r] = NoReq]
    /\ UNCHANGED <<note, clock, resp, pg, okRestores>>

\* a client starts paging: the first page of the active view, no cursor
PageStart(user, limit) ==
    /\ pg.view = "idle"
    /\ \E page \in ListResponses(note, user, FALSE, limit, Null) :
          pg' = [NoPg EXCEPT !.view = "active", !.user = user, !.limit = limit,
                             !.cursor = page.nextCursor,
                             !.seenActive = PageIds(page.notes),
                             !.sizes = <<Len(page.notes)>>,
                             !.base = Conditions(note, user, FALSE, Null)]
    /\ UNCHANGED <<note, clock, pending, resp, okRestores>>

\* the same first page, of a client that keeps what it has loaded, and its
\* cursor, while other requests change the table
PageStartLive(user, limit) ==
    /\ pg.view = "idle"
    /\ \E page \in ListResponses(note, user, FALSE, limit, Null) :
          pg' = [NoPg EXCEPT !.view = "active", !.user = user, !.limit = limit,
                             !.cursor = page.nextCursor,
                             !.seenActive = PageIds(page.notes),
                             !.sizes = <<Len(page.notes)>>,
                             !.base = Conditions(note, user, FALSE, Null),
                             !.keep = TRUE]
    /\ UNCHANGED <<note, clock, pending, resp, okRestores>>

\* the client follows nextCursor; when it is null it moves on to the trash
\* view, and after the trash view it is done
PageNext ==
    /\ pg.view \in {"active", "trash"}
    /\ IF pg.view = "trash" /\ pg.cursor = Null
       THEN pg' = [pg EXCEPT !.view = "done"]
       ELSE LET deleted == pg.view = "trash" \/ pg.cursor = Null IN
            \E page \in ListResponses(note, pg.user, deleted, pg.limit, pg.cursor) :
               pg' = [pg EXCEPT
                        !.view = IF deleted THEN "trash" ELSE "active",
                        !.cursor = page.nextCursor,
                        !.seenActive = IF deleted THEN @ ELSE @ \o PageIds(page.notes),
                        !.seenTrash = IF deleted THEN @ \o PageIds(page.notes) ELSE @,
                        !.sizes = IF deleted /\ pg.view = "active"
                                  THEN <<Len(page.notes)>>
                                  ELSE Append(@, Len(page.notes)),
                        !.base = IF deleted /\ pg.view = "active"
                                 THEN Conditions(note, pg.user, TRUE, Null)
                                 ELSE @]
    /\ UNCHANGED <<note, clock, pending, resp, okRestores>>

\* the client leaves the page
PageEnd ==
    /\ pg.view = "done"
    /\ pg' = NoPg
    /\ UNCHANGED <<note, clock, pending, resp, okRestores>>

\* the rows of a list that a predicate keeps: prev.filter(...)
RECURSIVE Without(_, _)
Without(s, gone) ==
    IF s = <<>> THEN <<>>
    ELSE IF Head(s) \in gone THEN Without(Tail(s), gone)
    ELSE <<Head(s)>> \o Without(Tail(s), gone)

\* Array.from(selectedNotes): the ids of the set, in some order
ArrayFrom(S) ==
    CHOOSE s \in [1..Cardinality(S) -> S] : \A i \in S : \E k \in DOMAIN s : s[k] = i

\* the trash page mounts: fetchNotes() without cursor. Of pg, seenTrash is the
\* notes state of the page (the ids of the rows it displays), cursor its
\* nextCursor and selected its selectedNotes; limit is the page size it asks for
TrashFetchNotes(user, limit) ==
    /\ pg.view = "idle"
    /\ \E page \in ListResponses(note, user, TRUE, limit, Null) :
          pg' = [NoPg EXCEPT !.view = "trash", !.user = user, !.limit = limit,
                             !.cursor = page.nextCursor,
                             !.seenTrash = PageIds(page.notes),
                             !.sizes = <<Len(page.notes)>>,
                             !.base = Conditions(note, user, TRUE, Null),
                             !.keep = TRUE]
    /\ UNCHANGED <<note, clock, pending, resp, okRestores>>

\* the infinite scroll observer: fetchNotes(nextCursor), appended to the list
TrashFetchMore ==
    /\ pg.view = "trash" /\ pg.keep
    /\ pg.cursor # Null
    /\ \E page \in ListResponses(note, pg.user, TRUE, pg.limit, pg.cursor) :
          pg' = [pg EXCEPT !.cursor = page.nextCursor,
                           !.seenTrash = @ \o PageIds(page.notes),
                           !.sizes = Append(@, Len(page.notes))]
    /\ UNCHANGED <<note, clock, pending, resp, okRestores>>

\* handleCheckboxChange of a displayed note
TrashCheckboxChange(noteId) ==
    /\ pg.view = "trash" /\ pg.keep
    /\ \E k \in DOMAIN pg.seenTrash : pg.seenTrash[k] = noteId
    /\ pg' = [pg EXCEPT !.selected = IF noteId \in @ THEN @ \ {noteId}
                                                     ELSE @ \cup {noteId}]
    /\ UNCHANGED <<note, clock, pending, resp, okRestores>>

\* selectedNotes.size === notes.length
SizesEqual(page) ==
    Cardinality(page.selected) = Len(page.seenTrash)

\* allSelected
AllSelected(page) ==
    Len(page.seenTrash) > 0 /\ SizesEqual(page)

\* handleSelectAll
TrashSelectAll ==
    /\ pg.view = "trash" /\ pg.keep
    /\ pg' = [pg EXCEPT !.selected =
                  IF SizesEqual(pg) /\ Len(pg.seenTrash) > 0
                  THEN {}
                  ELSE {pg.seenTrash[k] : k \in DOMAIN pg.seenTrash}]
    /\ UNCHANGED <<note, clock, pending, resp, okRestores>>

\* handleRestoreNote of a displayed note: POST /api/notes/[id]/restore; on 200
\* the note leaves the list and the selection, otherwise both stay
TrashRestoreNote(noteId, now) ==
    /\ pg.view = "trash" /\ pg.keep
    /\ \E k \in DOMAIN pg.seenTrash : pg.seenTrash[k] = noteId
    /\ IF RestoreFound(note, noteId, pg.user)
       THEN /\ RestoreTarget(note, noteId, pg.user)
            /\ note' = [note EXCEPT ![noteId] = RestoreRow(@, now)]
            /\ resp' = [NoResp EXCEPT !.op = "restore", !.user = pg.user,
                                      !.id = noteId, !.status = 200,
                                      !.before = note[noteId],
                                      !.body = note'[noteId]]
            /\ clock' = now
            /\ pg' = [pg EXCEPT !.seenTrash = Without(@, {noteId}),
                                !.selected = @ \ {noteId}]
       ELSE /\ resp' = [NoResp EXCEPT !.op = "restore", !.user = pg.user,
                                      !.id = noteId, !.status = 404,
                                      !.error = "Note not found or not deleted",
                                      !.before = Row(note, noteId)]
            /\ UNCHANGED <<note, clock, pg>>
    /\ UNCHANGED <<pending, okRestores>>

\* handleRestoreSelected: POST /api/notes/restore with the selected ids; the
\* selected notes leave the list and the selection is cleared
TrashRestoreSelected(now) ==
    /\ pg.view = "trash" /\ pg.keep
    /\ pg.selected # {}
    /\ LET noteIds == ArrayFrom(pg.selected)
           targets == BulkTargets(note, noteIds, pg.user)
       IN  /\ note' = [i \in DOMAIN note |->
                          IF i \in targets THEN BulkRestoreRow(note[i], now)
                                           ELSE note[i]]
           /\ \E updated \in Updated(note, noteIds, pg.user) :
                 resp' = [NoResp EXCEPT !.op = "bulkRestore", !.user = pg.user,
                                        !.status = 200,
                                        !.noteIds = [kind |-> "array", items |-> noteIds],
                                        !.restored = Len(updated),
                                        !.notes = RestoredNotes(note', updated),
                                        !.was = note]
    /\ clock' = now
    /\ pg' = [pg EXCEPT !.seenTrash = Without(@, pg.selected), !.selected = {}]
    /\ UNCHANGED <<pending, okRestores>>

\* the user leaves the trash page
TrashLeave ==
    /\ pg.view = "trash" /\ pg.keep
    /\ pg' = NoPg
    /\ UNCHANGED <<note, clock, pending, resp, okRestores>>

IdParams == 1..(MaxNotes + 1)        \* the last one names no row

\* the API served one request at a time
Next ==
    \/ \E u \in Users, t \in Titles \cup {Undefined, ""},
          c \in Contents \cup {Undefined}, now \in clock..MaxClock :
          CreatePOST(u, t, c, now)
    \/ \E u \in Users, i \in IdParams : NoteGET(u, i)
    \/ \E u \in Users, i \in IdParams, t \in Titles \cup {Undefined},
          c \in Contents \cup {Undefined}, now \in clock..MaxClock :
          NotePUT(u, i, t, c, now)
    \/ \E u \in Users, i \in IdParams, now \in clock..MaxClock : NoteDELETE(u, i, now)
    \/ \E u \in Users, i \in IdParams, now \in clock..MaxClock : RestorePOST(u, i, now)
    \/ \E u \in Users, b \in SelectionBodies, now \in clock..MaxClock :
          BulkRestorePOST(u, b, now)

Spec == Init /\ [][Next]_vars

\* the list view, over notes that differ in owner, partition and times
NextList ==
    \/ \E u \in Users, now \in clock..MaxClock : CreatePOST(u, "A", Undefined, now)
    \/ \E u \in Users, i \in NoteIds, now \in clock..MaxClock :
          NotePUT(u, i, "A", Undefined, now)
    \/ \E u \in Users, i \in NoteIds, now \in clock..MaxClock : NoteDELETE(u, i, now)
    \/ \E u \in Users, i \in NoteIds, now \in clock..MaxClock : RestorePOST(u, i, now)
    \/ \E u \in Users, b \in SelectionBodies, now \in clock..MaxClock :
          BulkRestorePOST(u, b, now)
    \/ \E u \in Users, d \in BOOLEAN, l \in LimitQueries, c \in CursorParams :
          ListGET(u, d, l, c)

SpecList == Init /\ [][NextList]_vars

\* a client paging through both views of its notes while the API is in use
NextPage ==
    \/ \E u \in Users, now \in clock..MaxClock : CreatePOST(u, "A", Undefined, now)
    \/ \E u \in Users, i \in NoteIds, now \in clock..MaxClock : NoteDELETE(u, i, now)
    \/ \E u \in Users, i \in NoteIds, now \in clock..MaxClock : RestorePOST(u, i, now)
    \/ \E u \in Users, l \in LimitParams : PageStart(u, l)
    \/ PageNext
    \/ PageEnd

SpecPage == Init /\ [][NextPage]_vars

\* list requests of a user with a long history, and of another user
NextCap ==
    \E u \in Users, d \in BOOLEAN, l \in {Null, LimitCap + 10, -1, -2} :
        ListGET(u, d, l, Null)

SpecCap == InitLibrary /\ [][NextCap]_vars

\* a client paging through the views of a long history
NextScroll ==
    \/ \E l \in LimitParams \cup {LimitCap} : PageStart("alice", l)
    \/ PageNext
    \/ PageEnd

SpecScroll == InitLibrary /\ [][NextScroll]_vars

\* the seven operations on notes that are edited, trashed and restored
NextLife ==
    \/ \E u \in Users, now \in clock..MaxClock : CreatePOST(u, "A", "x", now)
    \/ \E u \in Users, i \in NoteIds : NoteGET(u, i)
    \/ \E u \in Users, i \in NoteIds, now \in clock..MaxClock :
          NotePUT(u, i, "B", Undefined, now)
    \/ \E u \in Users, i \in NoteIds, now \in clock..MaxClock : NoteDELETE(u, i, now)
    \/ \E u \in Users, i \in NoteIds, now \in clock..MaxClock : RestorePOST(u, i, now)
    \/ \E u \in Users, b \in SelectionBodies, now \in clock..MaxClock :
          BulkRestorePOST(u, b, now)
    \/ \E u \in Users, d \in BOOLEAN : ListGET(u, d, Null, Null)

SpecLife == Init /\ [][NextLife]_vars

\* bulk restores in flight while other requests read and write
NextAtomic ==
    \/ \E u \in Users, now \in clock..MaxClock : CreatePOST(u, "A", Undefined, now)
    \/ \E u \in Users, i \in NoteIds, now \in clock..MaxClock : NoteDELETE(u, i, now)
    \/ \E u \in Users, i \in NoteIds, now \in clock..MaxClock : RestorePOST(u, i, now)
    \/ \E r \in Reqs, u \in Users, now \in clock..MaxClock,
          b \in SelectionBodies \cup {NoBody} : BulkBegin(r, u, b, now)
    \/ \E r \in Reqs : BulkApply(r)
    \/ \E u \in Users, i \in NoteIds : NoteGET(u, i)
    \/ \E u \in Users, d \in BOOLEAN : ListGET(u, d, Null, Null)

SpecAtomic == Init /\ [][NextAtomic]_vars

\* the notes of the client's user that are in the view it is not paging
OtherPartition ==
    {i \in DOMAIN note :
        /\ note[i].userId = pg.user
        /\ (note[i].deletedAt # Null) = (pg.view = "active")}

\* a client paging while notes are created and the notes of the other view are
\* edited or soft-deleted again
NextOther ==
    \/ \E l \in LimitParams \ {Null} : PageStartLive("alice", l)
    \/ PageNext
    \/ PageEnd
    \/ /\ pg.view \in {"active", "trash"}
       /\ Cardinality(DOMAIN note) < MaxNotes + 3
       /\ \E u \in Users, now \in (clock + 1)..LiveHorizon :
             CreatePOST(u, "A", Undefined, now)
    \/ /\ pg.view \in {"active", "trash"}
       /\ \E i \in OtherPartition, now \in (clock + 1)..LiveHorizon :
             NotePUT(pg.user, i, "B", Undefined, now)
    \/ /\ pg.view = "active"
       /\ \E i \in OtherPartition, now \in (clock + 1)..LiveHorizon :
             NoteDELETE(pg.user, i, now)

SpecOther == InitLive /\ [][NextOther]_vars

\* a user in the note editor: typing, the debounced save, Move to Trash,
\* leaving the page, and restoring from the trash
NextEditor ==
    \/ \E now \in clock..MaxClock : CreatePOST("alice", "A", Undefined, now)
    \/ \E i \in NoteIds : EditorOpen(1, "alice", i)
    \/ EditorTitleChange(1, "B")
    \/ EditorContentChange(1, "x")
    \/ EditorSaveNote(1, 2)
    \/ \E now \in clock..MaxClock : SaveApply(2, now)
    \/ \E now \in clock..MaxClock : EditorMoveToTrash(1, now)
    \/ EditorUnmount(1)
    \/ \E i \in NoteIds, now \in clock..MaxClock : RestorePOST("alice", i, now)

SpecEditor == Init /\ [][NextEditor]_vars

\* a user on the trash page: scrolling, selecting and restoring, while the
\* same user restores notes from elsewhere
NextTrashPage ==
    \/ \E l \in LimitParams \ {Null} : TrashFetchNotes("alice", l)
    \/ TrashFetchMore
    \/ \E i \in DOMAIN note : TrashCheckboxChange(i)
    \/ TrashSelectAll
    \/ \E i \in DOMAIN note, now \in (clock + 1)..LiveHorizon : TrashRestoreNote(i, now)
    \/ \E now \in (clock + 1)..LiveHorizon : TrashRestoreSelected(now)
    \/ TrashLeave
    \/ /\ pg.view = "trash"
       /\ \E i \in DOMAIN note, now \in (clock + 1)..LiveHorizon :
             RestorePOST(pg.user, i, now)

SpecTrashPage == InitLive /\ [][NextTrashPage]_vars

\* every operation of the API, called with and without a session
NextSession ==
    \/ \E u \in Callers, now \in clock..MaxClock : CreatePOST(u, "A", "x", now)
    \/ \E u \in Callers, i \in NoteIds : NoteGET(u, i)
    \/ \E u \in Callers, i \in NoteIds, now \in clock..MaxClock :
          NotePUT(u, i, "B", Undefined, now)
    \/ \E u \in Callers, i \in NoteIds, now \in clock..MaxClock : NoteDELETE(u, i, now)
    \/ \E u \in Callers, i \in NoteIds, now \in clock..MaxClock : RestorePOST(u, i, now)
    \/ \E u \in Callers, b \in SelectionBodies, now \in clock..MaxClock :
          BulkRestorePOST(u, b, now)
    \/ \E u \in Callers, d \in BOOLEAN : ListGET(u, d, Null, Null)

SpecSession == Init /\ [][NextSession]_vars

\* a client paging the trash view while its user soft-deletes and restores
NextTrash ==
    \/ \E l \in LimitParams \ {Null} : PageStartLive("alice", l)
    \/ PageNext
    \/ PageEnd
    \/ /\ pg.view = "trash"
       /\ \E i \in DOMAIN note, now \in (clock + 1)..LiveHorizon :
             NoteDELETE(pg.user, i, now)
    \/ /\ pg.view = "trash"
       /\ \E i \in DOMAIN note, now \in (clock + 1)..LiveHorizon :
             RestorePOST(pg.user, i, now)

SpecTrash == InitLive /\ [][NextTrash]_vars

\* bulk restore with every shape of request body
NextBulk ==
    \/ \E u \in Users, t \in Titles, now \in clock..MaxClock :
          CreatePOST(u, t, Undefined, now)
    \/ \E u \in Users, i \in NoteIds, now \in clock..MaxClock : NoteDELETE(u, i, now)
    \/ \E u \in Users, b \in BulkBodies, now \in clock..MaxClock :
          BulkRestorePOST(u, b, now)

SpecBulk == Init /\ [][NextBulk]_vars

\* every write, with soft deletes that read the clock and reach the database
\* later, other requests being served in between
NextTime ==
    \/ \E u \in Users, now \in clock..MaxClock : CreatePOST(u, "A", Undefined, now)
    \/ \E u \in Users, i \in NoteIds, now \in clock..MaxClock :
          NotePUT(u, i, Undefined, Undefined, now)
    \/ \E r \in Reqs, u \in Users, i \in IdParams, now \in clock..MaxClock :
          DeleteBegin(r, u, i, now)
    \/ \E r \in Reqs : DeleteApply(r)
    \/ \E u \in Users, i \in NoteIds, now \in clock..MaxClock : RestorePOST(u, i, now)
    \/ \E u \in Users, b \in SelectionBodies, now \in clock..MaxClock :
          BulkRestorePOST(u, b, now)

SpecTime == Init /\ [][NextTime]_vars

\* restore requests of several clients, interleaved at their database statements
NextRace ==
    \/ \E u \in Users, now \in clock..MaxClock : CreatePOST(u, "A", Undefined, now)
    \/ \E u \in Users, i \in NoteIds, now \in clock..MaxClock : NoteDELETE(u, i, now)
    \/ \E r \in Reqs, u \in Users, i \in IdParams : RestoreSelect(r, u, i)
    \/ \E r \in Reqs, now \in clock..MaxClock : RestoreUpdate(r, now)

SpecRace == Init /\ [][NextRace]_vars


\* ================================================================== claims
\* requests that address one note by id
ById == {"getById", "update", "softDelete", "restore"}

\* the caller addressed a note of another user
CrossOwner == resp.before # NoNote /\ resp.before.userId # resp.user

\* the caller addressed its own note
OwnNote == resp.before # NoNote /\ resp.before.userId = resp.user

\* the 404 of a by-id route
NotFoundError(op) ==
    IF op = "restore" THEN "Note not found or not deleted" ELSE "Note not found"

Count(s, x) == Cardinality({k \in DOMAIN s : s[k] = x})

\* the table with the rows of every other user removed
OwnNotes(table, user) ==
    [i \in {j \in DOMAIN table : table[j].userId = user} |-> table[i]]

\* C1: when a client has paged the active view and then the trash view of its
\* notes to the end, with no write in between, every note it owns was returned
\* exactly once over the two views (never in both, never in neither), also when
\* notes share a createdAt or a deletedAt value.
C1_PartitionComplete ==
    pg.view = "done" =>
        \A i \in DOMAIN note :
            note[i].userId = pg.user =>
                Count(pg.seenActive, i) + Count(pg.seenTrash, i) = 1

\* C2: every note a list response returns is owned by the caller, and has
\* deletedAt = null for deleted=false and deletedAt non-null for deleted=true,
\* for every owner, limit and cursor, after any sequence of writes.
C2_ListRespectsPartition ==
    resp.op = "list" =>
        \A k \in DOMAIN resp.notes :
            /\ resp.notes[k].userId = resp.user
            /\ resp.notes[k] = Row(note, resp.notes[k].id)
            /\ IF resp.deleted THEN resp.notes[k].deletedAt # Null
                               ELSE resp.notes[k].deletedAt = Null

\* C2 witness: a trash page with a row, served while the table also holds an
\* Active note of the caller.
C2_Witness ==
    /\ resp.op = "list" /\ resp.deleted /\ Len(resp.notes) >= 1
    /\ \E i \in DOMAIN note : note[i].userId = resp.user /\ note[i].deletedAt = Null

C5_AtMostOneRestoreSucceeds ==
    \A i \in NoteIds : okRestores[i] <= 1

\* C6: restore by the owner of a note that is already Active answers 404 and
\* leaves every field of the note, updatedAt included, unchanged.
C6_RestoreActiveNotFound ==
    (resp.op = "restore" /\ OwnNote /\ resp.before.deletedAt = Null) =>
        /\ resp.status = 404
        /\ resp.body = NoNote
        /\ note[resp.id] = resp.before

\* C6 witness: the owner's restore of an Active note was answered.
C6_Witness ==
    /\ resp.op = "restore" /\ OwnNote
    /\ resp.before.deletedAt = Null
    /\ resp.status = 404

\* C7: softDelete or restore of an existing note of another user answers
\* 403 Forbidden.
C7_CrossOwnerForbidden ==
    (resp.op \in {"softDelete", "restore"} /\ CrossOwner) => resp.status = 403

\* C8: softDelete by the owner of an Active note answers 200, sets deletedAt to
\* the request's timestamp (non-null, >= createdAt), sets updatedAt to the same
\* timestamp, and leaves id, title, content, createdAt and userId unchanged.
C8_SoftDeleteFrame ==
    (resp.op = "softDelete" /\ OwnNote /\ resp.before.deletedAt = Null) =>
        /\ resp.status = 200
        /\ resp.body = note[resp.id]
        /\ note[resp.id].deletedAt # Null
        /\ note[resp.id].deletedAt = clock
        /\ note[resp.id].deletedAt >= note[resp.id].createdAt
        /\ note[resp.id].updatedAt = note[resp.id].deletedAt
        /\ note[resp.id].id = resp.before.id
        /\ note[resp.id].title = resp.before.title
        /\ note[resp.id].content = resp.before.content
        /\ note[resp.id].createdAt = resp.before.createdAt
        /\ note[resp.id].userId = resp.before.userId

\* C8 witness: an Active note with content, last updated before the request's
\* timestamp, was soft-deleted by its owner.
C8_Witness ==
    /\ resp.op = "softDelete" /\ OwnNote /\ resp.status = 200
    /\ resp.before.deletedAt = Null
    /\ resp.before.content # NullText
    /\ resp.before.updatedAt < clock

\* C9: restore by the owner of a Deleted note answers 200, sets deletedAt to
\* null and updatedAt to the request's timestamp, and leaves id, title,
\* content, createdAt and userId unchanged.
C9_RestoreFrame ==
    (resp.op = "restore" /\ OwnNote /\ resp.before.deletedAt # Null) =>
        /\ resp.status = 200
        /\ resp.body = note[resp.id]
        /\ note[resp.id].deletedAt = Null
        /\ note[resp.id].updatedAt = clock
        /\ note[resp.id].id = resp.before.id
        /\ note[resp.id].title = resp.before.title
        /\ note[resp.id].content = resp.before.content
        /\ note[resp.id].createdAt = resp.before.createdAt
        /\ note[resp.id].userId = resp.before.userId

\* C9 witness: a Deleted note, deleted before the request's timestamp, was
\* restored by its owner.
C9_Witness ==
    /\ resp.op = "restore" /\ OwnNote /\ resp.status = 200
    /\ resp.before.deletedAt # Null
    /\ resp.before.updatedAt < clock

\* C10: softDelete of an Active note by its owner followed at once by the
\* owner's restore of it gives back the note it was, equal in id, title,
\* content, userId, createdAt and deletedAt = null; only updatedAt may differ.
C10_RoundTrip ==
    (resp.op = "restore" /\ resp.origin # NoNote /\ resp.origin.deletedAt = Null) =>
        /\ resp.status = 200
        /\ note[resp.id].deletedAt = Null
        /\ note[resp.id] = [resp.origin EXCEPT !.updatedAt = note[resp.id].updatedAt]

\* C10 witness: a restore answered right after the soft delete of a note that
\* had been Active, created before the restore's timestamp.
C10_Witness ==
    /\ resp.op = "restore" /\ resp.status = 200
    /\ resp.origin # NoNote /\ resp.origin.deletedAt = Null
    /\ resp.origin.createdAt < clock


\* ---- bulk restore ----

\* the ids named by the array of a bulk-restore body
Named(body) ==
    {body.items[k] : k \in DOMAIN body.items}

\* the notes a bulk restore is to bring back: named, owned by the caller, Deleted
ToRestore(table, body, user) ==
    {i \in DOMAIN table \cap Named(body) :
        table[i].userId = user /\ table[i].deletedAt # Null}

BadBody(body) ==
    \/ body.kind = "missing"
    \/ body.kind # "array"
    \/ body.items = <<>>
    \/ \E k \in DOMAIN body.items : body.items[k] = Null

C13_BulkRestoreFrame ==
    resp.op = "bulkRestore" =>
        /\ DOMAIN note = DOMAIN resp.was
        /\ \A i \in DOMAIN note :
              /\ note[i].title = resp.was[i].title
              /\ note[i].content = resp.was[i].content
              /\ note[i].createdAt = resp.was[i].createdAt
              /\ note[i].userId = resp.was[i].userId
              /\ note[i].id = resp.was[i].id
              /\ i \notin ToRestore(resp.was, resp.noteIds, resp.user)
                    => note[i] = resp.was[i]

\* a bulk restore that did restore a note created at an earlier tick
C13_Witness ==
    /\ resp.op = "bulkRestore" /\ resp.status = 200
    /\ \E i \in DOMAIN note :
          /\ resp.was[i].deletedAt # Null /\ note[i].deletedAt = Null
          /\ note[i].updatedAt > note[i].createdAt

\* ---- timestamps ----

\* C14: in every reachable state every note is Active or has deletedAt >=
\* createdAt, whatever the interleaving of create, update, soft delete, restore
\* and bulk restore requests, the clock never going backwards.
C14_DeletedAfterCreated ==
    \A i \in DOMAIN note :
        note[i].deletedAt = Null \/ note[i].deletedAt >= note[i].createdAt

\* a soft delete that read the clock, waited while a later request was served,
\* and then deleted a note with its earlier time
C14_Witness ==
    /\ resp.op = "softDelete" /\ resp.status = 200
    /\ resp.body.deletedAt < clock
    /\ resp.body.deletedAt >= resp.body.createdAt

\* ---- create ----

\* C15: a create with a non-empty title always adds one note, whose id no
\* existing note has, owned by the caller, with createdAt = updatedAt = the time
\* of the request and deletedAt = null, and leaves every existing note unchanged.
C15_CreateAddsNote ==
    (resp.op = "create" /\ resp.title # Undefined /\ resp.title # "") =>
        /\ resp.status = 201
        /\ resp.id \notin DOMAIN resp.was
        /\ DOMAIN note = DOMAIN resp.was \cup {resp.id}
        /\ note[resp.id].id = resp.id
        /\ note[resp.id].userId = resp.user
        /\ note[resp.id].title = resp.title
        /\ note[resp.id].createdAt = clock
        /\ note[resp.id].updatedAt = clock
        /\ note[resp.id].deletedAt = Null
        /\ \A i \in DOMAIN resp.was : note[i] = resp.was[i]

\* a create served when the table already held a note
C15_Witness ==
    /\ resp.op = "create" /\ resp.status = 201
    /\ resp.was # <<>>
    /\ resp.id \in DOMAIN note

\* C16: a create whose title is missing or empty answers 400, adds no note and
\* leaves the table unchanged.
C16_CreateWithoutTitle ==
    (resp.op = "create" /\ (resp.title = Undefined \/ resp.title = "")) =>
        /\ resp.status = 400
        /\ note = resp.was

\* a create with the empty string as title, rejected
C16_Witness ==
    /\ resp.op = "create" /\ resp.title = "" /\ resp.status = 400
    /\ note = resp.was

\* ---- pagination ----

\* the notes of one partition of a user
Partition(user, deleted) ==
    {i \in DOMAIN note :
        note[i].userId = user /\ (note[i].deletedAt # Null) = deleted}

\* the key a partition is ordered by
Key(i, deleted) ==
    IF deleted THEN note[i].deletedAt ELSE note[i].createdAt

DistinctKeys(user, deleted) ==
    \A i, j \in Partition(user, deleted) :
        i # j => Key(i, deleted) # Key(j, deleted)

\* what a client has read of one view, page after page, is right so far: the
\* newest notes of the partition, newest first, none twice, none left out
ReadInOrder(seen, user, deleted) ==
    /\ \A k \in DOMAIN seen : seen[k] \in Partition(user, deleted)
    /\ \A a, b \in DOMAIN seen : a < b => Key(seen[a], deleted) > Key(seen[b], deleted)
    /\ \A i \in Partition(user, deleted) :
          (\A k \in DOMAIN seen : seen[k] # i) =>
              \A k \in DOMAIN seen : Key(i, deleted) < Key(seen[k], deleted)

ReadAll(seen, user, deleted) ==
    \A i \in Partition(user, deleted) : \E k \in DOMAIN seen : seen[k] = i

\* the pages of the view being read: every page but the last one read has L
\* rows; a page with a nextCursor has L rows and is not the last; the page
\* without one ends the view
PagesOf(seen, user, deleted) ==
    LET L == IF pg.limit = Null THEN 20 ELSE pg.limit IN
    /\ \A k \in 1..(Len(pg.sizes) - 1) : pg.sizes[k] = L
    /\ pg.sizes[Len(pg.sizes)] <= L
    /\ pg.cursor # Null =>
          /\ pg.sizes[Len(pg.sizes)] = L
          /\ ~ReadAll(seen, user, deleted)
          /\ pg.cursor = seen[Len(seen)]
    /\ pg.cursor = Null => ReadAll(seen, user, deleted)

\* C17: over a partition that does not change and whose ordering keys are
\* pairwise distinct, with a limit L in 1..50, starting without a cursor and
\* following nextCursor returns the notes in strictly descending key order, L
\* per page, each note once, and only the last page has nextCursor = null.
C17_PagingComplete ==
    /\ (pg.view = "active" /\ DistinctKeys(pg.user, FALSE)) =>
          /\ ReadInOrder(pg.seenActive, pg.user, FALSE)
          /\ PagesOf(pg.seenActive, pg.user, FALSE)
    /\ (pg.view = "trash" /\ DistinctKeys(pg.user, TRUE)) =>
          /\ ReadInOrder(pg.seenTrash, pg.user, TRUE)
          /\ PagesOf(pg.seenTrash, pg.user, TRUE)
    /\ (pg.view \in {"trash", "done"} /\ DistinctKeys(pg.user, FALSE)) =>
          /\ ReadInOrder(pg.seenActive, pg.user, FALSE)
          /\ ReadAll(pg.seenActive, pg.user, FALSE)
    /\ (pg.view = "done" /\ DistinctKeys(pg.user, TRUE)) =>
          /\ ReadInOrder(pg.seenTrash, pg.user, TRUE)
          /\ ReadAll(pg.seenTrash, pg.user, TRUE)

\* 25 active notes read with the limit of 20: a page of 20, then a page of 5
\* without a nextCursor
C17_Witness ==
    /\ pg.view = "active" /\ pg.cursor = Null
    /\ Cardinality(Partition(pg.user, FALSE)) = 25
    /\ pg.sizes = <<20, 5>>
    /\ Len(pg.seenActive) = 25

\* the limit a request asks for: 20 when none is given, never more than 50
Asked(limit) ==
    IF limit = Null THEN 20 ELSE IF limit > 50 THEN 50 ELSE limit

\* the rows that satisfy the predicates of a list request: owner, partition,
\* and a key below the key of the cursor note
Matching(user, deleted, cursor) ==
    {i \in Partition(user, deleted) :
        (cursor \in DOMAIN note /\ Key(cursor, deleted) # Null) =>
            Key(i, deleted) < Key(cursor, deleted)}

\* C18: for every list request the page has at most limit rows, and nextCursor
\* is the id of the last row of the page exactly when more than limit rows
\* satisfy the predicates of the request (owner, partition, cursor bound);
\* otherwise it is null.
C18_PageAndCursor ==
    resp.op = "list" =>
        LET more == Cardinality(Matching(resp.user, resp.deleted, resp.cursor))
                        > Asked(resp.limit)
        IN  /\ resp.status = 200
            /\ Len(resp.notes) <= Asked(resp.limit)
            /\ more => /\ resp.notes # <<>>
                       /\ resp.nextCursor = resp.notes[Len(resp.notes)].id
            /\ ~more => resp.nextCursor = Null

\* C19: list never returns more than 50 notes in one page, whatever limit is
\* asked for, and at most 20 when no limit is given.
C19_PageCap ==
    resp.op = "list" =>
        /\ Len(resp.notes) <= 50
        /\ resp.limit = Null => Len(resp.notes) <= 20

\* the key a returned row was ordered by
RowKey(row, deleted) ==
    IF deleted THEN row.deletedAt ELSE row.createdAt

\* C20: every page of the trash view is sorted by deletedAt, latest first, and
\* every page of the active view by createdAt, latest first; a restored note
\* takes the place its createdAt gives it, not the time of the restore.
C20_PagesSorted ==
    resp.op = "list" =>
        \A a, b \in DOMAIN resp.notes :
            a < b => RowKey(resp.notes[a], resp.deleted)
                         >= RowKey(resp.notes[b], resp.deleted)

\* an active page whose last note was written to (restored or edited) no
\* earlier than the creation of the note listed before it
C20_Witness ==
    /\ resp.op = "list" /\ ~resp.deleted /\ Len(resp.notes) = 2
    /\ resp.notes[2].createdAt < resp.notes[1].createdAt
    /\ resp.notes[2].updatedAt >= resp.notes[1].createdAt
    /\ resp.notes[2].updatedAt > resp.notes[2].createdAt

\* ---- lifecycle ----

\* the ids of the rows of a page
Listed(rows) ==
    {rows[k].id : k \in DOMAIN rows}

\* C21: once a soft delete of N has succeeded, every later list of the owner
\* leaves N out of the active view and has N in the trash view, with the title
\* and content it had, until N is restored; once a restore of N has succeeded,
\* every later list has N in the active view and not in the trash view, until
\* N is soft-deleted again.
C21_ReadYourWrites ==
    [][/\ (resp'.op = "list" /\ resp'.status = 200) =>
            \A i \in DOMAIN note' :
                note'[i].userId = resp'.user =>
                    IF (note'[i].deletedAt # Null) = resp'.deleted
                    THEN \E k \in DOMAIN resp'.notes : resp'.notes[k] = note'[i]
                    ELSE i \notin Listed(resp'.notes)
       /\ \A i \in DOMAIN note :
            (note[i].deletedAt # Null /\ note'[i].deletedAt # Null) =>
                /\ note'[i].title = note[i].title
                /\ note'[i].content = note[i].content]_vars

\* C22: no operation removes a note or changes its id, owner or createdAt: a
\* note, once created, is there in every later state with the same id, owner
\* and createdAt.
C22_NotesStay ==
    [][\A i \in DOMAIN note :
          /\ i \in DOMAIN note'
          /\ note'[i].id = note[i].id
          /\ note'[i].userId = note[i].userId
          /\ note'[i].createdAt = note[i].createdAt]_vars

\* a note that was edited and soft-deleted at a later tick was restored and is
\* still there
C22_Witness ==
    /\ resp.op = "restore" /\ resp.status = 200
    /\ resp.id \in DOMAIN note
    /\ note[resp.id].title = "B"
    /\ note[resp.id].createdAt < resp.before.deletedAt

\* C23: an update changes the fields the request provides and updatedAt, and
\* nothing else: never deletedAt, createdAt, owner or id, and no other note;
\* when no note matches the id and the caller it answers 404 and changes
\* nothing.
C23_UpdateFrame ==
    resp.op = "update" =>
        IF resp.id \in DOMAIN resp.was /\ resp.was[resp.id].userId = resp.user
        THEN /\ resp.status = 200
             /\ DOMAIN note = DOMAIN resp.was
             /\ \A i \in DOMAIN note \ {resp.id} : note[i] = resp.was[i]
             /\ note[resp.id].title =
                    IF resp.title # Undefined THEN resp.title
                                              ELSE resp.was[resp.id].title
             /\ note[resp.id].content =
                    IF resp.content # Undefined THEN resp.content
                                                ELSE resp.was[resp.id].content
             /\ note[resp.id].updatedAt = clock
             /\ note[resp.id].deletedAt = resp.was[resp.id].deletedAt
             /\ note[resp.id].createdAt = resp.was[resp.id].createdAt
             /\ note[resp.id].userId = resp.was[resp.id].userId
             /\ note[resp.id].id = resp.was[resp.id].id
        ELSE /\ resp.status = 404
             /\ note = resp.was

\* an update of the title alone, of a note in the trash that has a content
C23_Witness ==
    /\ resp.op = "update" /\ resp.status = 200
    /\ resp.title # Undefined /\ resp.content = Undefined
    /\ resp.title # resp.was[resp.id].title
    /\ note[resp.id].content # NullText
    /\ note[resp.id].deletedAt # Null

\* ---- concurrent soft deletes ----

AsideUpdatedAt(row) ==
    [row EXCEPT !.updatedAt = Null]

\* C25: soft delete and restore are safe to retry: a soft delete applied to a
\* note that a soft delete has just deleted leaves the stored note as it was,
\* and so does a restore applied to a note that a restore has just restored,
\* updatedAt aside.
C25_RetryKeepsState ==
    /\ (resp.op = "softDelete" /\ OwnNote /\ resp.before.deletedAt # Null) =>
          AsideUpdatedAt(note[resp.id]) = AsideUpdatedAt(resp.before)
    /\ (resp.op = "restore" /\ OwnNote /\ resp.before.deletedAt = Null) =>
          AsideUpdatedAt(note[resp.id]) = AsideUpdatedAt(resp.before)

\* ---- atomic bulk restore ----

\* the notes that go from Deleted to Active in a step
RestoredInStep ==
    {i \in DOMAIN note : note[i].deletedAt # Null /\ note'[i].deletedAt = Null}

\* C26: a bulk restore is one atomic step. Whatever else is in flight, notes
\* leave the trash only in the step of a single restore, which restores its one
\* note, or in the step of a bulk restore, which restores every note that
\* qualifies for it (named, owned by the caller, Deleted) at once: no state in
\* between, with some of them restored and others not, is there for a list, a
\* getById or a lifecycle request to see.
C26_BulkRestoreAtomic ==
    [][RestoredInStep # {} =>
          \/ /\ resp'.op = "restore" /\ resp'.status = 200
             /\ RestoredInStep = {resp'.id}
          \/ /\ resp'.op = "bulkRestore" /\ resp'.status = 200
             /\ RestoredInStep = ToRestore(note, resp'.noteIds, resp'.user)]_vars

\* a bulk restore that was in flight while another request was served restored
\* two notes in one step
C26_Witness ==
    /\ resp.op = "bulkRestore" /\ resp.status = 200 /\ resp.restored = 2
    /\ \A i \in DOMAIN note : note[i].deletedAt = Null
    /\ \E i \in DOMAIN note : note[i].updatedAt < clock

\* ---- pagination beside writes ----

\* what a client has read of a view holds every note that was in the view when
\* it began, down to the last one read, once each
ReadStable(seen, deleted) ==
    /\ \A a, b \in DOMAIN seen : a # b => seen[a] # seen[b]
    /\ \A i \in pg.base :
          (\A k \in DOMAIN seen : seen[k] # i) =>
              /\ pg.cursor # Null
              /\ \A k \in DOMAIN seen : Key(i, deleted) < Key(seen[k], deleted)

\* C27: while a client pages through one partition of its notes, with distinct
\* ordering keys, requests that only create notes or change notes that stay in
\* the other partition make it neither skip nor repeat a note of the partition
\* it pages.
C27_StableBesideOtherPartition ==
    /\ (pg.keep /\ pg.view = "active" /\ DistinctKeys(pg.user, FALSE)) =>
          ReadStable(pg.seenActive, FALSE)
    /\ (pg.keep /\ pg.view = "trash" /\ DistinctKeys(pg.user, TRUE)) =>
          ReadStable(pg.seenTrash, TRUE)

\* the active view read to its end in several pages, while a note was created
\* and a note in the trash was written to
C27_Witness ==
    /\ pg.keep /\ pg.view = "active" /\ pg.cursor = Null
    /\ Len(pg.sizes) >= 2
    /\ DistinctKeys(pg.user, FALSE)
    /\ \E i \in Partition(pg.user, FALSE) : i \notin pg.base
    /\ \E i \in Partition(pg.user, TRUE) : note[i].updatedAt > 2 * (MaxNotes + 2)

\* C28: in a trash view of more notes than the limit, the page asked for
\* with the nextCursor of a page has the notes that follow in deletedAt order
\* and none that an earlier page returned, whatever soft deletes and restores
\* are served between the two page requests.
C28_TrashPagesDoNotRepeat ==
    (pg.keep /\ pg.view = "trash") =>
        \A a, b \in DOMAIN pg.seenTrash : a # b => pg.seenTrash[a] # pg.seenTrash[b]

\* C29: every operation of the API called without a valid session answers 401
\* Unauthorized, returns no note and leaves the note table as it was.
C29_NoSessionNoAccess ==
    (resp.op # "none" /\ resp.user \notin Users) =>
        /\ resp.status = 401
        /\ resp.error = "Unauthorized"
        /\ resp.body = NoNote /\ resp.before = NoNote /\ resp.origin = NoNote
        /\ resp.notes = <<>> /\ resp.nextCursor = Null
        /\ resp.restored = 0
        /\ note = resp.was

\* a request without a session is answered while the table holds a Deleted
\* and an Active note
C29_Witness ==
    /\ resp.status = 401 /\ resp.user = Anonymous
    /\ resp.op \in {"restore", "bulkRestore", "softDelete", "update"}
    /\ \E i, j \in DOMAIN note : note[i].deletedAt # Null /\ note[j].deletedAt = Null

\* the title and content of a row
Text(row) ==
    <<row.title, row.content>>

\* C30: a note in the trash is not editable: from its soft delete to its next
\* restore its title and content stay as they are, whatever the user does in
\* the note editor (a debounced save pending at Move to Trash included) and
\* whatever requests are served.
C30_TrashNotEditable ==
    [][\A i \in DOMAIN note :
          (note[i].deletedAt # Null /\ note'[i].deletedAt # Null) =>
              Text(note'[i]) = Text(note[i])]_vars


\* ---- the pages of a view ----

C32_GetByIdReadsAnyState ==
    (resp.op = "getById" /\ OwnNote) =>
        /\ resp.status = 200
        /\ resp.body = resp.before
        /\ resp.body.deletedAt = resp.was[resp.id].deletedAt
        /\ note = resp.was

\* the owner read a note that is in the trash
C32_Witness ==
    /\ resp.op = "getById" /\ OwnNote /\ resp.status = 200
    /\ resp.body.deletedAt # Null


\* C33: a soft delete or a restore of one note leaves every other note as it
\* was, in every field, and adds or removes none; the note it names is in the
\* trash after a successful soft delete and out of it after a successful
\* restore.
C33_OtherNotesUntouched ==
    [][resp'.op \in {"softDelete", "restore"} =>
          /\ DOMAIN note' = DOMAIN note
          /\ \A i \in DOMAIN note : i # resp'.id => note'[i] = note[i]
          /\ resp'.status = 200 =>
                 (note'[resp'.id].deletedAt # Null) = (resp'.op = "softDelete")]_vars

\* of two Active notes of one owner, one was soft-deleted and the other is
\* still Active
C33_Witness ==
    /\ resp.op = "softDelete" /\ resp.status = 200
    /\ resp.before.deletedAt = Null
    /\ \E i \in DOMAIN note :
          /\ i # resp.id
          /\ note[i].userId = resp.user
          /\ note[i].deletedAt = Null


\* ---- the note editor ----

\* C34: when the editor page unmounts while a debounced save is pending, that
\* save is sent: the unmount puts a PUT with the pending updates in flight.
C34_UnmountFlushesSave ==
    [][\A r \in Reqs :
          (/\ pending[r].op = "editor"
           /\ pending[r].updates # NoUpdates
           /\ pending'[r].op # "editor") =>
              \E q \in Reqs :
                  /\ pending'[q].op = "update"
                  /\ pending'[q].id = pending[r].id
                  /\ pending'[q].title = pending[r].updates.title
                  /\ pending'[q].content = pending[r].updates.content]_vars

\* C35: in a mounted editor with no save pending and no save in flight, the
\* stored title is the last title typed and the stored content the last
\* content typed.
C35_EditsSaved ==
    \A r \in Reqs :
        (/\ pending[r].op = "editor"
         /\ pending[r].updates = NoUpdates
         /\ \A q \in Reqs : pending[q].op # "update") =>
            /\ note[pending[r].id].title = pending[r].title
            /\ note[pending[r].id].content = pending[r].content


\* ---- the trash page ----

\* the ids of the rows the trash page displays
Displayed == {pg.seenTrash[k] : k \in DOMAIN pg.seenTrash}

\* C36: the list the trash page displays never has a note id twice, after any
\* sequence of loads, scroll fetches, single restores and bulk restores.
C36_DisplayedOnce ==
    (pg.view = "trash" /\ pg.keep) =>
        Cardinality(Displayed) = Len(pg.seenTrash)

\* C40: on the trash page every selected id is the id of a displayed note, so
\* that allSelected holds exactly when the page displays a note and every
\* displayed note is selected.
C40_SelectedAreDisplayed ==
    (pg.view = "trash" /\ pg.keep) =>
        /\ pg.selected \subseteq Displayed
        /\ AllSelected(pg) = (Displayed # {} /\ Displayed \subseteq pg.selected)


\* ---- limits, clocks and counts ----

\* C37: whatever the limit parameter of a list request carries, the page size
\* the handler works with is an integer from 1 to 50 and the request answers
\* 200.
C37_LimitInRange ==
    resp.op = "list" =>
        /\ EffLimit(resp.limit) \in 1..LimitCap
        /\ resp.status = 200


\* C38: the updatedAt of a note never decreases and is never before its
\* createdAt, whatever the interleaving of the requests that write it, each
\* of which reads the clock before its write is applied.
C38_UpdatedAtMonotonic ==
    [][\A i \in DOMAIN note :
          /\ note'[i].updatedAt >= note[i].updatedAt
          /\ note'[i].updatedAt >= note'[i].createdAt]_vars


\* C39: the count a bulk restore returns is the number of notes in its
\* response, is the number of notes the call took from Deleted to Active, and
\* is never more than the number of distinct ids in the request, repeated ids
\* included.
C39_BulkCount ==
    (resp.op = "bulkRestore" /\ resp.status = 200) =>
        LET changed == {i \in DOMAIN resp.was :
                           resp.was[i].deletedAt # Null /\ note[i].deletedAt = Null}
        IN  /\ resp.restored = Len(resp.notes)
            /\ resp.restored = Cardinality(changed)
            /\ {resp.notes[k].id : k \in DOMAIN resp.notes} = changed
            /\ \A k \in DOMAIN resp.notes : resp.notes[k].deletedAt = Null
            /\ resp.restored <= Cardinality(Named(resp.noteIds))

\* a request that names one Deleted note twice restored it and counts 1
C39_Witness ==
    /\ resp.op = "bulkRestore" /\ resp.status = 200
    /\ Len(resp.noteIds.items) = 2
    /\ resp.noteIds.items[1] = resp.noteIds.items[2]
    /\ resp.restored = 1

====
